---- MODULE Spec2Model ----
(***************************************************************************)
(* Offline-sync core of the Masjeed PWA:                                   *)
(*   - OfflineQueueManager (utils/offlineQueue.ts, src/unnamed/part_009)   *)
(*   - IndexedDBManager    (src/src/utils/indexedDB.ts)                    *)
(*   - the auth store's offline actions (store/authStore.ts, found in      *)
(*     src/src/App.tsx from line 405 on) and App's network listeners       *)
(*   - the service worker's fetch interceptor (src/unnamed/part_005)       *)
(*                                                                         *)
(* Scheduling is the browser event loop: code between two awaits runs      *)
(* atomically.  An IndexedDB request executes atomically and the code      *)
(* after `await` of it runs in the microtask checkpoint of its success     *)
(* event, so "request + continuation" is one step of the model, placed at  *)
(* the moment the request executes.  A step is split at an await only      *)
(* where the code before the await writes shared state (clearQueue,        *)
(* syncOfflineData) and at every network fetch and timer.                  *)
(***************************************************************************)
EXTENDS Integers, Sequences, FiniteSets, Bags, TLC

\* ------------------------------------------------------------- bounds
MaxItems == 1      \* requests enqueued (ids generated)
MaxAttempts == 3   \* replay requests the manager sends in all
MaxClearing == 1   \* clearQueue calls in flight at once
MaxTime == 1       \* ticks of Date.now() while the App runs
MaxClock == 2      \* hours of Date.now() the service worker lives through

\* ------------------------------------------------- program constants
DefaultMaxRetries == 3
BaseDelay == 1000
MaxDelay == 30000
BackoffMultiplier == 2
SnapshotTtl == 1   \* service worker, storeApiDataInIndexedDB: 1 hour

\* JavaScript `undefined` for an optional numeric field
Undefined == 0 - 1

\* ids generated so far are 1 .. nextId - 1
Ids == 1..MaxItems

VARIABLES
  navOnline,      \* navigator.onLine
  now,            \* Date.now()
  \* ---- IndexedDB
  db,             \* object store 'offlineQueue': id -> record
  nextId,         \* ids generated so far + 1
  \* ---- OfflineQueueManager
  isOnline,       \* this.isOnline
  retryTimeouts,  \* this.retryTimeouts: id -> [st, delay]
  loose,          \* id -> pending retry timers the map no longer refers to
  startupTimer,   \* setTimeout(processQueue, 1000) of initializeRetryProcess pending
  tasks,          \* bag of processQueueItem calls awaiting their fetch
  clearing,       \* clearQueue calls awaiting indexedDB clear
  cleared,        \* a clearQueue has completed and nothing was enqueued since
  events,         \* bag of CustomEvents dispatched on window
  attempts,       \* id -> executeRequest calls made for it
  \* ---- auth store, state.offline
  appOnline,      \* offline.isOnline
  syncInProgress, \* offline.syncInProgress
  lastSyncTime,   \* offline.lastSyncTime (Undefined for null)
  mounted,        \* App's useEffect has run
  counting,       \* syncOfflineData calls awaiting updateQueuedRequests
  \* ---- service worker
  apiCache,       \* Cache 'masjeed-api-v1': pathname -> data of the cached response
  idbSnap,        \* stores prayerTimes / events / announcements: record 'current'
  swResponse,     \* what the page's last intercepted /api/ request settled with
  syncing,        \* the records a running background sync has loaded and not yet sent
  \* ---- IndexedDBManager used directly on the snapshot collections
  coll,           \* collection name -> (id -> record)
  idbOut,         \* how the last store / get / getAll / delete call settled
  \* ---- the caller of the manager
  callOut         \* how the getQueueStatus or failing addToQueue call of the last step settled

vars == <<navOnline, now, db, nextId, isOnline, retryTimeouts, loose,
          startupTimer, tasks, clearing, cleared, events, attempts,
          appOnline, syncInProgress, lastSyncTime, mounted, counting,
          apiCache, idbSnap, swResponse, syncing, coll, idbOut, callOut>>

mgrVars == <<db, nextId, isOnline, retryTimeouts, loose, startupTimer, tasks,
             clearing, cleared, events, attempts>>
appVars == <<appOnline, syncInProgress, lastSyncTime, mounted, counting>>
swVars == <<apiCache, idbSnap, swResponse, syncing>>
idbVars == <<coll, idbOut>>
callVars == <<callOut>>

\* ------------------------------------------------------------ helpers
Min(a, b) == IF a <= b THEN a ELSE b

RECURSIVE Pow(_, _)
Pow(b, e) == IF e <= 0 THEN 1 ELSE b * Pow(b, e - 1)

RECURSIVE SortedIds(_)
SortedIds(S) ==
  IF S = {} THEN <<>>
  ELSE LET m == CHOOSE x \in S : \A y \in S : x <= y
       IN <<m>> \o SortedIds(S \ {m})

\* ------------------------------------------------ requests to enqueue
\* JSON.stringify of the body given to addToQueue (part_009:72)
Stringify(body) == "json:" \o body

\* the calls the helpers offlineQueue.queueDonation / queueEventRegistration make
Requests ==
  { [url |-> "/api/donations", method |-> "POST", body |-> "donation",
     headers |-> "Authorization", type |-> "donations"],
    [url |-> "/api/events/1/register", method |-> "POST", body |-> "{}",
     headers |-> "Authorization", type |-> "registrations"] }

DonationRequest == CHOOSE r \in Requests : r.type = "donations"

RegistrationRequest == CHOOSE r \in Requests : r.type = "registrations"

\* the addToQueue calls explored: the helper queueDonation (no retryConfig),
\* a registration with retryConfig {maxRetries: 1} and a donation with
\* retryConfig {maxRetries: 0}
Calls ==
  { [req |-> DonationRequest, given |-> Undefined],
    [req |-> RegistrationRequest, given |-> 1],
    [req |-> DonationRequest, given |-> 0] }

\* ------------------------------------------------------ IndexedDBManager
\* store(): put {...data, timestamp: Date.now(), expiresAt: undefined}
Store(d, item, t) ==
  LET rec == [item EXCEPT !.timestamp = t]
  IN [i \in (DOMAIN d) \cup {item.id} |-> IF i = item.id THEN rec ELSE d[i]]

\* delete(): no error if absent
Delete(d, id) == [i \in (DOMAIN d) \ {id} |-> d[i]]

\* getAll(): records in key order (queue records carry no expiresAt)
GetAll(d) == LET s == SortedIds(DOMAIN d) IN [k \in 1..Len(s) |-> d[s[k]]]

\* ------------------------------------------------- OfflineQueueManager
NoTimer == [st |-> "none", delay |-> 0]

\* the backoff without its Math.min
CalculateRetryDelayUncapped(retryCount) ==
  BaseDelay * Pow(BackoffMultiplier, retryCount - 1)

\* calculateRetryDelay
CalculateRetryDelay(retryCount) ==
  Min(BaseDelay * Pow(BackoffMultiplier, retryCount - 1), MaxDelay)

\* handleRetry, line 143: item.maxRetries || this.defaultRetryConfig.maxRetries
EffectiveMaxRetries(item) ==
  IF item.maxRetries = Undefined \/ item.maxRetries = 0
  THEN DefaultMaxRetries ELSE item.maxRetries

\* handleRetry, line 145
RetriesExhausted(item) == item.retryCount >= EffectiveMaxRetries(item)

\* scheduleRetry: clear the timer the map holds for the id, set the new one
ScheduleRetry(rt, id, delay) ==
  [rt EXCEPT ![id] = [st |-> "pending", delay |-> delay]]

\* removeFromQueue, lines 194-199: clearTimeout + map delete
ClearTimer(rt, id) == [rt EXCEPT ![id] = NoTimer]

\* notifySuccess / notifyFailure event details
SuccessEvent(item) ==
  [name |-> "offlineQueueSuccess", id |-> item.id, type |-> item.type,
   url |-> item.url, method |-> item.method, retryCount |-> Undefined]

FailureEvent(item) ==
  [name |-> "offlineQueueFailure", id |-> item.id, type |-> item.type,
   url |-> item.url, method |-> item.method, retryCount |-> item.retryCount]

Task(kind, owner, item, rest) ==
  [kind |-> kind, owner |-> owner, item |-> item, rest |-> rest]

\* the for-loop of processQueue over the remaining loaded copies: the next
\* executeRequest is sent, or the pass returns (to syncOfflineData when the
\* facade called it, which then awaits updateQueuedRequests)
PassTasks(rest, owner) ==
  IF rest = <<>> THEN EmptyBag
  ELSE SetToBag({Task("pass", owner, Head(rest), Tail(rest))})

PassCounting(rest, owner) ==
  IF rest = <<>> /\ owner = "facade" THEN 1 ELSE 0

PassAttempts(att, rest) ==
  IF rest = <<>> THEN att
  ELSE [att EXCEPT ![Head(rest).id] = @ + 1]

\* processQueue() without its offline test
ProcessQueueRestAlways(online, d) == GetAll(d)

\* processQueue(): no-op while offline, otherwise getAll and start the loop
ProcessQueueRest(online, d) == IF online THEN GetAll(d) ELSE <<>>

\* addToQueue, line 66 and 76: { ...defaultRetryConfig, ...retryConfig }.maxRetries
ConfigMaxRetries(given) == IF given = Undefined THEN DefaultMaxRetries ELSE given

\* addToQueue's record with a retry already counted
NewQueueItemRetried(id, req, given, t) ==
  [id |-> id, url |-> req.url, method |-> req.method,
   body |-> Stringify(req.body), headers |-> req.headers, timestamp |-> t,
   retryCount |-> 1, maxRetries |-> ConfigMaxRetries(given), type |-> req.type]

\* addToQueue, lines 68-78
NewQueueItem(id, req, given, t) ==
  [id |-> id, url |-> req.url, method |-> req.method,
   body |-> IF req.body = "none" THEN "undefined" ELSE Stringify(req.body),
   headers |-> req.headers, timestamp |-> t, retryCount |-> 0,
   maxRetries |-> ConfigMaxRetries(given), type |-> req.type]

\* ------------------------------------------------------ service worker
\* the /api/ requests the page makes: path segments, method, body, headers
SWRequests ==
  { [path |-> <<"api", "auth", "login">>, method |-> "POST",
     body |-> "credentials", headers |-> "none"],
    [path |-> <<"api", "auth", "logout">>, method |-> "POST",
     body |-> "none", headers |-> "Authorization"],
    [path |-> <<"api", "auth", "me">>, method |-> "GET",
     body |-> "none", headers |-> "Authorization"],
    [path |-> <<"api", "donations">>, method |-> "POST",
     body |-> "donation", headers |-> "Authorization"],
    [path |-> <<"api", "events", "1", "register">>, method |-> "DELETE",
     body |-> "none", headers |-> "Authorization"],
    [path |-> <<"api", "events">>, method |-> "GET",
     body |-> "none", headers |-> "none"] }

\* outcome of fetch(request): a 2xx response, another response, a rejection
NetOutcomes == {"ok", "notok", "error"}

\* IndexedDB faults: indexedDB.open fails, the request on the store fails
Faults == {"none", "open", "request"}

\* url.pathname
RECURSIVE PathName(_)
PathName(path) ==
  IF path = <<>> THEN "" ELSE "/" \o Head(path) \o PathName(Tail(path))

\* pathname.includes('/seg')
Includes(path, seg) == \E i \in 1..Len(path) : path[i] = seg

\* the auth test that never matches
IsAuthEndpointNever(path) == FALSE

\* url.pathname.startsWith('/api/auth/'), lines 78 and 141
IsAuthEndpoint(path) ==
  Len(path) >= 3 /\ path[1] = "api" /\ path[2] = "auth"

\* line 140
IsWriteOperation(method) == method \in {"POST", "PUT", "PATCH", "DELETE"}

\* getRequestType
GetRequestType(path) ==
  IF Includes(path, "donations") THEN "donations"
  ELSE IF Includes(path, "events") /\ Includes(path, "register") THEN "registrations"
  ELSE IF Includes(path, "announcements") THEN "announcements"
  ELSE "general"

\* the object stores openIndexedDB finds in 'masjeed-offline-db'
ObjectStoreNames ==
  {"offlineQueue", "prayerTimes", "events", "announcements", "donations", "community"}

\* storeApiDataInIndexedDB / getApiDataFromIndexedDB: store of a pathname
SnapshotStore(path) ==
  IF Includes(path, "prayers") THEN "prayerTimes"
  ELSE IF Includes(path, "events") THEN "events"
  ELSE IF Includes(path, "announcements") THEN "announcements"
  ELSE "general"

SnapshotStores == {"prayerTimes", "events", "announcements"}

NoData == [endpoint |-> "", version |-> Undefined]

NoRecord == [data |-> NoData, timestamp |-> Undefined, expiresAt |-> Undefined]

\* what the page's fetch() settles with: a Response (kind network, synthetic
\* or indexedDB, with the flags of its JSON body) or a rejection with error
Response(kind, status, offline, queued, error, data) ==
  [kind |-> kind, status |-> status, offline |-> offline, queued |-> queued,
   error |-> error, data |-> data]

Rejected(error) == Response("rejected", 0, FALSE, FALSE, error, NoData)

\* the response of the network, handed through; a 2xx GET carries the
\* endpoint's data as of now
NetworkResponse(req, net, t) ==
  Response("network", IF net = "ok" THEN 200 ELSE 500, FALSE, FALSE, "",
           IF net = "ok" /\ req.method = "GET"
           THEN [endpoint |-> PathName(req.path), version |-> t] ELSE NoData)

\* lines 80-87
AuthUnavailableResponse ==
  Response("synthetic", 503, FALSE, FALSE,
           "Authentication service unavailable", NoData)

\* lines 177-185
QueuedResponse ==
  Response("synthetic", 202, TRUE, TRUE,
           "Request queued for when back online", NoData)

\* getOfflineResponse
GetOfflineResponse(path) ==
  IF IsAuthEndpoint(path)
  THEN Response("synthetic", 503, FALSE, FALSE,
                "Authentication service unavailable", NoData)
  ELSE IF Includes(path, "prayers")
  THEN Response("synthetic", 503, TRUE, FALSE,
                "Prayer times not available offline", NoData)
  ELSE IF Includes(path, "events")
  THEN Response("synthetic", 503, TRUE, FALSE,
                "Events not available offline", NoData)
  ELSE IF Includes(path, "announcements")
  THEN Response("synthetic", 503, TRUE, FALSE,
                "Announcements not available offline", NoData)
  ELSE Response("synthetic", 503, TRUE, FALSE,
                "API not available offline", NoData)

\* line 168: request.method !== 'DELETE' ? await request.clone().text() : null
RequestBody(req) ==
  IF req.method = "DELETE" THEN "null"
  ELSE IF req.body = "none" THEN "" ELSE req.body

\* fetch(request) has consumed the body stream of a request that has one, so
\* request.clone() of line 168 throws a TypeError (Fetch standard: clone of
\* an unusable body)
CloneThrows(req) == req.method # "DELETE" /\ req.body # "none"

\* addToOfflineQueue, lines 637-642: no maxRetries field
SWQueueItem(id, req, t) ==
  [id |-> id, url |-> PathName(req.path), method |-> req.method,
   body |-> RequestBody(req), headers |-> req.headers, timestamp |-> t,
   retryCount |-> 0, maxRetries |-> Undefined,
   type |-> GetRequestType(req.path)]

\* getApiDataFromIndexedDB: the record 'current' unless missing or expired
GetApiDataFromIndexedDB(path, fault, t, snap) ==
  IF fault = "open" \/ SnapshotStore(path) \notin ObjectStoreNames THEN NoRecord
  ELSE LET result == snap[SnapshotStore(path)]
       IN IF result = NoRecord THEN NoRecord
          ELSE IF t > result.expiresAt THEN NoRecord
          ELSE result

\* storeApiDataInIndexedDB: put {id: 'current', data, timestamp, expiresAt}
StoreApiDataInIndexedDB(path, data, fault, t, snap) ==
  IF fault = "open" \/ SnapshotStore(path) \notin ObjectStoreNames THEN snap
  ELSE [snap EXCEPT ![SnapshotStore(path)] =
          [data |-> data, timestamp |-> t, expiresAt |-> t + SnapshotTtl]]

\* what one interception leaves behind
Outcome(resp, d, nid, cache, snap) ==
  [resp |-> resp, db |-> d, nextId |-> nid, apiCache |-> cache, idbSnap |-> snap]

\* handleApiRequest(request)
HandleApiRequest(req, net, fault, t, d, nid, cache, snap) ==
  IF IsAuthEndpoint(req.path)
  THEN \* lines 144-154
       Outcome(IF net = "error" THEN Rejected("network")
               ELSE NetworkResponse(req, net, t), d, nid, cache, snap)
  ELSE IF IsWriteOperation(req.method)
  THEN \* lines 157-187
       IF net = "ok" THEN Outcome(NetworkResponse(req, net, t), d, nid, cache, snap)
       ELSE IF CloneThrows(req) THEN Outcome(Rejected("TypeError"), d, nid, cache, snap)
       \* addToOfflineQueue: its try/catch swallows a failing open; a failing
       \* store.add rejects the promise it returns
       ELSE IF fault = "open" THEN Outcome(QueuedResponse, d, nid, cache, snap)
       ELSE IF fault = "request" THEN Outcome(Rejected("store"), d, nid, cache, snap)
       ELSE Outcome(QueuedResponse, Store(d, SWQueueItem(nid, req, t), t),
                    nid + 1, cache, snap)
  ELSE \* lines 190-231
       IF net = "ok"
       THEN LET resp == NetworkResponse(req, net, t)
                key == PathName(req.path)
            IN Outcome(resp, d, nid,
                       [p \in (DOMAIN cache) \cup {key} |->
                          IF p = key THEN resp.data ELSE cache[p]],
                       StoreApiDataInIndexedDB(req.path, resp.data, fault, t, snap))
       \* a cached Response has immutable headers: headers.set of line 213
       \* throws a TypeError (Fetch standard: Headers guard "immutable")
       ELSE IF PathName(req.path) \in DOMAIN cache
       THEN Outcome(Rejected("TypeError"), d, nid, cache, snap)
       ELSE LET rec == GetApiDataFromIndexedDB(req.path, fault, t, snap)
            IN IF rec # NoRecord
               THEN Outcome(Response("indexedDB", 200, FALSE, FALSE, "", rec.data),
                            d, nid, cache, snap)
               ELSE Outcome(GetOfflineResponse(req.path), d, nid, cache, snap)

\* the fetch listener: respondWith(handleApiRequest(request).catch(...))
FetchListener(req, net, fault, t, d, nid, cache, snap) ==
  LET o == HandleApiRequest(req, net, fault, t, d, nid, cache, snap)
  IN IF o.resp.kind = "rejected" /\ IsAuthEndpoint(req.path)
     THEN [o EXCEPT !.resp = AuthUnavailableResponse]
     ELSE o

\* ------------------------------ IndexedDBManager on snapshot collections
\* the collections of DBSchema (indexedDB.ts lines 8-24)
DBSchemaNames ==
  {"prayerTimes", "events", "announcements", "donations", "community",
   "userData", "offlineQueue"}

\* the collections the calls explored here go to
IdbCollections == {"events", "userData"}

\* the records given to store(): id and data
IdbRecords == [id : {"current", "next"}, data : {"a", "b"}]

\* the ttl given to store(), in hours: none, 0, one hour
IdbTtls == {Undefined, 0, 1}

\* get() resolving null
NotFound == [id |-> "", data |-> "", timestamp |-> Undefined, expiresAt |-> Undefined]

\* a call settles: resolved with a value, or rejected; purged holds the ids
\* the call issued this.delete for
IdbSettled(op, ok, value, purged) ==
  [op |-> op, ok |-> ok, value |-> value, purged |-> purged]

\* store(), lines 78-82: {...data, timestamp: Date.now(),
\*   expiresAt: ttlMinutes ? Date.now() + ttl : undefined}
WithExpiry(rec, ttl, t) ==
  [id |-> rec.id, data |-> rec.data, timestamp |-> t,
   expiresAt |-> IF ttl = Undefined \/ ttl = 0 THEN Undefined ELSE t + ttl]

\* the expiry test without its "has an expiresAt" half
ExpiredByTimeOnly(rec, t) == t > rec.expiresAt

\* get() line 110, getAll() line 135: item.expiresAt && Date.now() > item.expiresAt
Expired(rec, t) ==
  rec.expiresAt # Undefined /\ rec.expiresAt # 0 /\ t > rec.expiresAt

\* store.put: upsert by the key path id
Put(d, rec) ==
  [i \in (DOMAIN d) \cup {rec.id} |-> IF i = rec.id THEN rec ELSE d[i]]

\* the records getAll() resolves with, in key order
RECURSIVE SortedKeys(_)
SortedKeys(S) ==
  IF S = {} THEN <<>>
  ELSE LET m == CHOOSE x \in S : \A y \in S \ {x} : x = "current" \/ y # "current"
       IN <<m>> \o SortedKeys(S \ {m})

ValidResults(d, t) ==
  LET keys == SortedKeys({i \in DOMAIN d : ~Expired(d[i], t)})
  IN [k \in 1..Len(keys) |-> d[keys[k]]]

\* ------------------------------------------------------- getQueueStatus
\* the categories of queued requests
Types == {"donations", "registrations", "announcements", "general"}

\* a status whose total counts the donations only
GetQueueStatusDonationsOnly(d) ==
  LET items == GetAll(d)
      present == {items[k].type : k \in 1..Len(items)}
  IN [total |-> Cardinality({k \in 1..Len(items) : items[k].type = "donations"}),
      byType |-> [ty \in present |->
                    Cardinality({k \in 1..Len(items) : items[k].type = ty})],
      items |-> items]

\* getQueueStatus(): items of getAll, their number, and the reduce over them
\* (byType has a key only for a category that occurs)
GetQueueStatus(d) ==
  LET items == GetAll(d)
      present == {items[k].type : k \in 1..Len(items)}
  IN [total |-> Len(items),
      byType |-> [ty \in present |->
                    Cardinality({k \in 1..Len(items) : items[k].type = ty})],
      items |-> items]

\* status.byType[ty] || 0
ByTypeCount(status, ty) ==
  IF ty \in DOMAIN status.byType THEN status.byType[ty] ELSE 0

\* the status of an empty queue
NoStatus == GetQueueStatus(<<>>)

\* a call of the manager settles: resolved (with a status) or rejected with error
CallSettled(op, ok, error, status) ==
  [op |-> op, ok |-> ok, error |-> error, status |-> status]

\* the guard without its syncInProgress test
SyncAllowedWhenOnline(online, inProgress) == online

\* syncOfflineData, line 673: the guard that lets a drain start
SyncAllowed(online, inProgress) == online /\ ~inProgress

\* ---------------------------------------------------------------- Init
Init ==
  /\ navOnline \in BOOLEAN
  /\ now = 0
  /\ db = <<>>
  /\ nextId = 1
  /\ isOnline = navOnline
  /\ retryTimeouts = [i \in Ids |-> NoTimer]
  /\ loose = [i \in Ids |-> 0]
  /\ startupTimer = navOnline
  /\ tasks = EmptyBag
  /\ clearing = 0
  /\ cleared = FALSE
  /\ events = EmptyBag
  /\ attempts = [i \in Ids |-> 0]
  /\ appOnline = navOnline
  /\ syncInProgress = FALSE
  /\ lastSyncTime = Undefined
  /\ mounted = FALSE
  /\ counting = 0
  /\ apiCache = <<>>
  /\ idbSnap = [n \in SnapshotStores |-> NoRecord]
  /\ swResponse = Rejected("none")
  /\ syncing = <<>>
  /\ coll = [c \in IdbCollections |-> <<>>]
  /\ idbOut = IdbSettled("none", TRUE, NotFound, {})
  /\ callOut = CallSettled("none", TRUE, "", NoStatus)

\* ------------------------------------------------------------- actions
\* addToQueue(url, method, body, headers, type, retryConfig)
AddToQueue(req, given) ==
  /\ nextId <= MaxItems
  /\ LET item == NewQueueItem(nextId, req, given, now)
     IN /\ db' = Store(db, item, now)
        /\ retryTimeouts' = IF isOnline THEN ScheduleRetry(retryTimeouts, item.id, 0)
                            ELSE retryTimeouts
  /\ nextId' = nextId + 1
  /\ cleared' = FALSE
  /\ UNCHANGED <<navOnline, now, isOnline, loose, startupTimer, tasks,
                 clearing, events, attempts, appVars>>

\* what follows the end of one processQueueItem call, by its caller
AfterAttempt(t, rt1) ==
  LET id == t.item.id IN
  /\ tasks' = (tasks (-) SetToBag({t}))
                (+) (IF t.kind = "pass" THEN PassTasks(t.rest, t.owner) ELSE EmptyBag)
  /\ attempts' = IF t.kind = "pass" THEN PassAttempts(attempts, t.rest) ELSE attempts
  /\ counting' = IF t.kind = "pass" THEN counting + PassCounting(t.rest, t.owner)
                 ELSE counting
  \* scheduleRetry's finally: this.retryTimeouts.delete(itemId)
  /\ retryTimeouts' = IF t.kind = "timer" THEN ClearTimer(rt1, id) ELSE rt1
  /\ loose' = IF t.kind = "timer" /\ rt1[id].st = "pending"
              THEN [loose EXCEPT ![id] = @ + 1] ELSE loose

\* processQueueItem: response.ok
FetchOk(t) ==
  /\ navOnline
  /\ db' = Delete(db, t.item.id)
  /\ events' = events (+) SetToBag({SuccessEvent(t.item)})
  /\ AfterAttempt(t, ClearTimer(retryTimeouts, t.item.id))
  /\ UNCHANGED <<navOnline, now, nextId, isOnline, startupTimer, clearing,
                 cleared, appOnline, syncInProgress, lastSyncTime, mounted>>

\* processQueueItem: fetch rejects or response not ok -> handleRetry
FetchFail(t) ==
  /\ IF RetriesExhausted(t.item)
     THEN /\ db' = Delete(db, t.item.id)
          /\ events' = events (+) SetToBag({FailureEvent(t.item)})
          /\ AfterAttempt(t, ClearTimer(retryTimeouts, t.item.id))
     ELSE LET item == [t.item EXCEPT !.retryCount = @ + 1]
          IN /\ db' = Store(db, item, now)
             /\ events' = events
             /\ AfterAttempt(t, ScheduleRetry(retryTimeouts, item.id,
                                              CalculateRetryDelay(item.retryCount)))
  /\ UNCHANGED <<navOnline, now, nextId, isOnline, startupTimer, clearing,
                 cleared, appOnline, syncInProgress, lastSyncTime, mounted>>

\* the callback of scheduleRetry runs: get the item, attempt it if present
TimerFire(id) ==
  /\ retryTimeouts[id].st = "pending"
  /\ IF id \in DOMAIN db
     THEN /\ tasks' = tasks (+) SetToBag({Task("timer", "manager", db[id], <<>>)})
          /\ attempts' = [attempts EXCEPT ![id] = @ + 1]
          /\ retryTimeouts' = [retryTimeouts EXCEPT ![id].st = "fired"]
     ELSE /\ retryTimeouts' = ClearTimer(retryTimeouts, id)
          /\ UNCHANGED <<tasks, attempts>>
  /\ UNCHANGED <<navOnline, now, db, nextId, isOnline, loose, startupTimer,
                 clearing, cleared, events, appVars>>

\* the same callback, for a pending timer the map no longer refers to
LooseTimerFire(id) ==
  /\ loose[id] > 0
  /\ IF id \in DOMAIN db
     THEN /\ tasks' = tasks (+) SetToBag({Task("timer", "manager", db[id], <<>>)})
          /\ attempts' = [attempts EXCEPT ![id] = @ + 1]
          /\ loose' = [loose EXCEPT ![id] = @ - 1]
          /\ UNCHANGED retryTimeouts
     ELSE /\ retryTimeouts' = ClearTimer(retryTimeouts, id)
          /\ loose' = IF retryTimeouts[id].st = "pending" THEN loose
                      ELSE [loose EXCEPT ![id] = @ - 1]
          /\ UNCHANGED <<tasks, attempts>>
  /\ UNCHANGED <<navOnline, now, db, nextId, isOnline, startupTimer,
                 clearing, cleared, events, appVars>>

\* retryItem(itemId)
RetryItem(id) ==
  /\ IF id \in DOMAIN db /\ isOnline
     THEN /\ tasks' = tasks (+) SetToBag({Task("pass", "manager", db[id], <<>>)})
          /\ attempts' = [attempts EXCEPT ![id] = @ + 1]
     ELSE UNCHANGED <<tasks, attempts>>
  /\ UNCHANGED <<navOnline, now, db, nextId, isOnline, retryTimeouts, loose,
                 startupTimer, clearing, cleared, events, appVars>>

\* clearQueue(), up to its await: every timer of the map is cleared
ClearQueueCall ==
  /\ clearing < MaxClearing
  /\ retryTimeouts' = [i \in Ids |-> NoTimer]
  /\ clearing' = clearing + 1
  /\ UNCHANGED <<navOnline, now, db, nextId, isOnline, loose, startupTimer,
                 tasks, cleared, events, attempts, appVars>>

\* indexedDBManager.clear('offlineQueue') executes and clearQueue returns
ClearQueueDone ==
  /\ clearing > 0
  /\ clearing' = clearing - 1
  /\ db' = <<>>
  /\ cleared' = TRUE
  /\ UNCHANGED <<navOnline, now, nextId, isOnline, retryTimeouts, loose,
                 startupTimer, tasks, events, attempts, appVars>>

\* initializeRetryProcess: setTimeout(() => this.processQueue(), 1000)
StartupTimerFire ==
  /\ startupTimer
  /\ startupTimer' = FALSE
  /\ LET rest == ProcessQueueRest(isOnline, db)
     IN /\ tasks' = tasks (+) PassTasks(rest, "manager")
        /\ attempts' = PassAttempts(attempts, rest)
  /\ UNCHANGED <<navOnline, now, db, nextId, isOnline, retryTimeouts, loose,
                 clearing, cleared, events, appVars>>

\* syncOfflineData() up to `await offlineQueue.processQueue()`
SyncStart ==
  LET rest == ProcessQueueRest(isOnline', db)
  IN /\ syncInProgress' = TRUE
     /\ tasks' = tasks (+) PassTasks(rest, "facade")
     /\ attempts' = PassAttempts(attempts, rest)
     /\ counting' = counting + PassCounting(rest, "facade")

\* App's useEffect: setOnlineStatus(navigator.onLine)
AppMount ==
  /\ ~mounted
  /\ mounted' = TRUE
  /\ appOnline' = navOnline
  /\ UNCHANGED isOnline
  /\ IF navOnline /\ SyncAllowed(navOnline, syncInProgress)
     THEN SyncStart
     ELSE UNCHANGED <<syncInProgress, tasks, attempts, counting>>
  /\ UNCHANGED <<navOnline, now, db, nextId, retryTimeouts, loose,
                 startupTimer, clearing, cleared, events, lastSyncTime>>

\* the "Sync Now" button: syncOfflineData()
SyncOfflineData ==
  /\ mounted
  /\ UNCHANGED isOnline
  /\ IF SyncAllowed(appOnline, syncInProgress)
     THEN SyncStart
     ELSE UNCHANGED <<syncInProgress, tasks, attempts, counting>>
  /\ UNCHANGED <<navOnline, now, db, nextId, retryTimeouts, loose,
                 startupTimer, clearing, cleared, events, appOnline,
                 lastSyncTime, mounted>>

\* syncOfflineData() after updateQueuedRequests: lines 691-697
SyncFinish ==
  /\ counting > 0
  /\ counting' = counting - 1
  /\ syncInProgress' = FALSE
  /\ lastSyncTime' = now
  /\ UNCHANGED <<navOnline, now, mgrVars, appOnline, mounted>>

\* window 'online': the manager's listener, then App's handleOnline
OnlineEvent ==
  /\ ~navOnline
  /\ navOnline' = TRUE
  /\ isOnline' = TRUE
  /\ LET rest == ProcessQueueRest(TRUE, db)
         sync == mounted /\ SyncAllowed(TRUE, syncInProgress)
         n == IF sync THEN 2 ELSE 1
     IN /\ tasks' = tasks (+) PassTasks(rest, "manager")
                          (+) (IF sync THEN PassTasks(rest, "facade") ELSE EmptyBag)
        /\ attempts' = IF rest = <<>> THEN attempts
                       ELSE [attempts EXCEPT ![Head(rest).id] = @ + n]
        /\ counting' = IF sync THEN counting + PassCounting(rest, "facade")
                       ELSE counting
        /\ syncInProgress' = (syncInProgress \/ sync)
  /\ appOnline' = IF mounted THEN TRUE ELSE appOnline
  /\ UNCHANGED <<now, db, nextId, retryTimeouts, loose, startupTimer, clearing,
                 cleared, events, lastSyncTime, mounted>>

\* window 'offline'
OfflineEvent ==
  /\ navOnline
  /\ navOnline' = FALSE
  /\ isOnline' = FALSE
  /\ appOnline' = IF mounted THEN FALSE ELSE appOnline
  /\ UNCHANGED <<now, db, nextId, retryTimeouts, loose, startupTimer, tasks,
                 clearing, cleared, events, attempts, syncInProgress,
                 lastSyncTime, mounted, counting>>

\* offlineQueue.processQueue() called directly
ProcessQueue ==
  /\ LET rest == ProcessQueueRest(isOnline, db)
     IN /\ tasks' = tasks (+) PassTasks(rest, "manager")
        /\ attempts' = PassAttempts(attempts, rest)
  /\ UNCHANGED <<navOnline, now, db, nextId, isOnline, retryTimeouts, loose,
                 startupTimer, clearing, cleared, events, appVars>>

RECURSIVE Sum(_, _)
Sum(f, S) == IF S = {} THEN 0
             ELSE LET x == CHOOSE y \in S : TRUE IN f[x] + Sum(f, S \ {x})

\* the explored behaviours send at most MaxAttempts requests
WithinBounds == Sum(attempts', Ids) <= MaxAttempts

\* the manager driven through its public interface (App not mounted):
\* enqueue, drain passes, retry timers, manual retries, connectivity events
Step ==
  \/ \E c \in Calls : AddToQueue(c.req, c.given)
  \/ \E t \in BagToSet(tasks) : FetchOk(t)
  \/ \E t \in BagToSet(tasks) : FetchFail(t)
  \/ \E id \in Ids : TimerFire(id)
  \/ \E id \in Ids : LooseTimerFire(id)
  \/ \E id \in Ids : RetryItem(id)
  \/ ProcessQueue
  \/ StartupTimerFire
  \/ OnlineEvent
  \/ OfflineEvent

Next == Step /\ WithinBounds /\ UNCHANGED swVars /\ UNCHANGED idbVars /\ UNCHANGED callVars

Spec == Init /\ [][Next]_vars

\* the same, with clearQueue
StepClear ==
  \/ \E c \in Calls : AddToQueue(c.req, c.given)
  \/ \E t \in BagToSet(tasks) : FetchOk(t)
  \/ \E t \in BagToSet(tasks) : FetchFail(t)
  \/ \E id \in Ids : TimerFire(id)
  \/ \E id \in Ids : LooseTimerFire(id)
  \/ \E id \in Ids : RetryItem(id)
  \/ ProcessQueue
  \/ ClearQueueCall
  \/ ClearQueueDone
  \/ StartupTimerFire
  \/ OnlineEvent
  \/ OfflineEvent

NextClear ==
  StepClear /\ WithinBounds /\ UNCHANGED swVars /\ UNCHANGED idbVars /\ UNCHANGED callVars

SpecClear == Init /\ [][NextClear]_vars

\* Date.now() advances
Tick(limit) ==
  /\ now < limit
  /\ now' = now + 1
  /\ UNCHANGED <<navOnline, mgrVars, appVars>>

\* time passes while a drain of the facade runs
SyncTick == syncInProgress /\ Tick(MaxTime)

\* the App mounted on top of the manager: connectivity events reach both
\* the manager's listeners and App's handlers; donations are queued through
\* the helper and drained by passes and retry timers
StepApp ==
  \/ AddToQueue(DonationRequest, Undefined)
  \/ \E t \in BagToSet(tasks) : FetchOk(t)
  \/ \E t \in BagToSet(tasks) : FetchFail(t)
  \/ \E id \in Ids : TimerFire(id)
  \/ \E id \in Ids : LooseTimerFire(id)
  \/ StartupTimerFire
  \/ AppMount
  \/ SyncOfflineData
  \/ SyncFinish
  \/ OnlineEvent
  \/ OfflineEvent
  \/ SyncTick

NextApp ==
  StepApp /\ WithinBounds /\ UNCHANGED swVars /\ UNCHANGED idbVars /\ UNCHANGED callVars

SpecApp == Init /\ [][NextApp]_vars

\* the service worker answers one intercepted /api/ request
SWFetch(req, net, fault) ==
  \E o \in {FetchListener(req, net, fault, now, db, nextId, apiCache, idbSnap)} :
     /\ o.nextId <= MaxItems + 1
     /\ db' = o.db
     /\ nextId' = o.nextId
     /\ apiCache' = o.apiCache
     /\ idbSnap' = o.idbSnap
     /\ swResponse' = o.resp
     /\ cleared' = IF o.db = db THEN cleared ELSE FALSE
     /\ UNCHANGED <<navOnline, now, isOnline, retryTimeouts, loose, startupTimer,
                    tasks, clearing, events, attempts, appVars, idbVars, callVars,
                    syncing>>

\* the service worker alone, intercepting the page's API requests
NextSW ==
  \/ \E req \in SWRequests, net \in NetOutcomes, fault \in Faults :
       SWFetch(req, net, fault)
  \/ Tick(MaxClock) /\ UNCHANGED swVars /\ UNCHANGED idbVars /\ UNCHANGED callVars

SpecSW == Init /\ [][NextSW]_vars

\* ============================================================ properties
\* maxRetries as configured when the item was enqueued: the stored field, or
\* the default when the record carries none
ConfiguredMaxRetries(item) ==
  IF item.maxRetries = Undefined THEN DefaultMaxRetries ELSE item.maxRetries

\* some retry timer for the id is pending, tracked by the map or not
TimerPending(rt, ls, id) == rt[id].st = "pending" \/ ls[id] > 0

\* the step ends the processQueueItem call t without a success notification
AttemptFailed(t) ==
  /\ CopiesIn(t, tasks') < CopiesIn(t, tasks)
  /\ CopiesIn(SuccessEvent(t.item), events') = CopiesIn(SuccessEvent(t.item), events)

\* the step ends the processQueueItem call t with a success notification
AttemptSucceeded(t) ==
  /\ CopiesIn(t, tasks') < CopiesIn(t, tasks)
  /\ CopiesIn(SuccessEvent(t.item), events') > CopiesIn(SuccessEvent(t.item), events)

\* C1: every item in the store has 0 <= retryCount <= maxRetries, where
\* maxRetries is the value configured at enqueue time (default 3).
C1_RetryCountWithinMaxRetries ==
  \A id \in DOMAIN db :
    /\ 0 <= db[id].retryCount
    /\ db[id].retryCount <= ConfiguredMaxRetries(db[id])

\* C2: while an item stays in the store its persisted retryCount never
\* decreases.
C2_RetryCountNeverDecreases ==
  [][\A id \in (DOMAIN db) \cap (DOMAIN db') :
       db'[id].retryCount >= db[id].retryCount]_vars

\* C8: after clearQueue() has completed the store stays empty until the next
\* enqueue, whatever attempts or timers were outstanding when it was called.
C8_ClearQueueLeavesNothing ==
  cleared => db = <<>>

\* C9: a failed attempt on an item with retryCount >= maxRetries removes the
\* item and emits a failure notification carrying its retryCount; otherwise
\* retryCount + 1 is persisted and a retry timer is scheduled.  An item
\* whose attempts all fail is removed at its (maxRetries + 1)-th attempt.
C9_FailedAttemptHandling ==
  [][\A t \in BagToSet(tasks) :
       AttemptFailed(t) =>
         LET id == t.item.id IN
         IF t.item.retryCount >= ConfiguredMaxRetries(t.item)
         THEN /\ id \notin DOMAIN db'
              /\ CopiesIn(FailureEvent(t.item), events')
                   = CopiesIn(FailureEvent(t.item), events) + 1
              /\ FailureEvent(t.item).retryCount = ConfiguredMaxRetries(t.item)
              /\ (CopiesIn(SuccessEvent(t.item), events) = 0
                    => attempts[id] = ConfiguredMaxRetries(t.item) + 1)
         ELSE /\ id \in DOMAIN db'
              /\ db'[id].retryCount = t.item.retryCount + 1
              /\ TimerPending(retryTimeouts', loose', id)
              /\ events' = events]_vars

\* C10: when an attempt gets a 2xx response the item is deleted, its pending
\* retry timer is cancelled and the success notification (id, type, url,
\* method) is emitted with the item already out of the store.
C10_SuccessHandling ==
  [][\A t \in BagToSet(tasks) :
       AttemptSucceeded(t) =>
         /\ t.item.id \notin DOMAIN db'
         /\ ~TimerPending(retryTimeouts', loose', t.item.id)]_vars

\* number of drains the facade's syncOfflineData has running: its
\* processQueue pass, or the updateQueuedRequests that follows it
RECURSIVE BagCount(_, _)
BagCount(B, S) ==
  IF S = {} THEN 0
  ELSE LET x == CHOOSE y \in S : TRUE IN CopiesIn(x, B) + BagCount(B, S \ {x})

FacadeDrains(ts, cnt) ==
  BagCount(ts, {t \in BagToSet(ts) : t.owner = "facade"}) + cnt

\* C6: an offline-to-online transition triggers exactly one processQueue
\* invocation: with an item queued, exactly one replay request is sent.
C6_OneDrainPerOnlineTransition ==
  [][(~navOnline /\ navOnline' /\ db # <<>>)
       => Sum(attempts', Ids) = Sum(attempts, Ids) + 1]_vars

\* C7: syncInProgress is false initially, true exactly while one facade
\* drain runs; a drain starts only when online and not in progress, and
\* lastSyncTime is written only when a drain ends, with the time of its end.
C7_SyncGuardState ==
  /\ FacadeDrains(tasks, counting) <= 1
  /\ syncInProgress <=> (FacadeDrains(tasks, counting) = 1)
  /\ lastSyncTime # Undefined => lastSyncTime <= now

C7_SyncGuardStep ==
  /\ FacadeDrains(tasks', counting') > FacadeDrains(tasks, counting)
       => appOnline' /\ ~syncInProgress /\ syncInProgress'
  /\ lastSyncTime' # lastSyncTime
       => /\ FacadeDrains(tasks', counting') < FacadeDrains(tasks, counting)
          /\ lastSyncTime' = now
          /\ ~syncInProgress'
  /\ (syncInProgress /\ ~syncInProgress') => lastSyncTime' = now

C7_SyncInProgressGuard ==
  /\ ~syncInProgress
  /\ []C7_SyncGuardState
  /\ [][C7_SyncGuardStep]_vars

\* a second drain of the facade is running after a first one completed
C7_Witness ==
  /\ syncInProgress
  /\ lastSyncTime # Undefined
  /\ \E t \in BagToSet(tasks) : t.owner = "facade"

\* a path under /api/auth/
UnderApiAuth(path) == Len(path) >= 3 /\ path[1] = "api" /\ path[2] = "auth"

\* the queued record carries the request's body (none, for a request without)
SameBody(itemBody, reqBody) ==
  IF reqBody = "none" THEN itemBody \in {"", "null"} ELSE itemBody = reqBody

\* C3: whenever the interceptor answers a failed write with the synthetic
\* 202 carrying queued: true, a QueuedRequest with the request's method,
\* url, body, headers and retryCount 0 has been persisted, also when the
\* store write fails.
C3_QueuedMeansPersisted ==
  [][\A req \in SWRequests, net \in NetOutcomes, fault \in Faults :
       (SWFetch(req, net, fault) /\ swResponse'.queued) =>
          \E id \in (DOMAIN db') \ (DOMAIN db) :
             /\ db'[id].method = req.method
             /\ db'[id].url = PathName(req.path)
             /\ SameBody(db'[id].body, req.body)
             /\ db'[id].headers = req.headers
             /\ db'[id].retryCount = 0]_vars

\* C4: a request under /api/auth/, whatever its method and the network
\* outcome, adds no item to the offline queue, is never answered from the
\* cache or an IndexedDB snapshot, and never gets a body with offline: true
\* or queued: true.
C4_AuthIsolation ==
  [][\A req \in SWRequests, net \in NetOutcomes, fault \in Faults :
       (UnderApiAuth(req.path) /\ SWFetch(req, net, fault)) =>
          /\ db' = db
          /\ swResponse'.kind \notin {"cache", "indexedDB"}
          /\ ~swResponse'.offline
          /\ ~swResponse'.queued]_vars

\* an auth request has failed on the network while a write was queued and a
\* read was cached
C4_Witness ==
  /\ swResponse = AuthUnavailableResponse
  /\ db # <<>>
  /\ apiCache # <<>>

\* C5: when the network attempt of a request under /api/auth/ fails, the
\* caller observes the original network error: no response is substituted.
C5_AuthFailurePropagates ==
  [][\A req \in SWRequests, fault \in Faults :
       (UnderApiAuth(req.path) /\ SWFetch(req, "error", fault)) =>
          swResponse' = Rejected("network")]_vars

\* C11: enqueue persists exactly one new item with retryCount 0 and the
\* given category, so total and byType[category] each grow by exactly 1;
\* online it schedules a first attempt with delay 0, offline it schedules
\* nothing and sends no request.
C11_EnqueueEffect ==
  [][\A c \in Calls :
       AddToQueue(c.req, c.given) =>
         LET id == nextId
             before == GetQueueStatus(db)
             after == GetQueueStatus(db')
         IN /\ DOMAIN db' = (DOMAIN db) \cup {id}
            /\ id \notin DOMAIN db
            /\ \A i \in DOMAIN db : db'[i] = db[i]
            /\ db'[id].retryCount = 0
            /\ db'[id].type = c.req.type
            /\ db'[id].url = c.req.url
            /\ db'[id].method = c.req.method
            /\ after.total = before.total + 1
            /\ ByTypeCount(after, c.req.type) = ByTypeCount(before, c.req.type) + 1
            /\ \A ty \in Types \ {c.req.type} :
                 ByTypeCount(after, ty) = ByTypeCount(before, ty)
            /\ tasks' = tasks
            /\ attempts' = attempts
            /\ IF isOnline
               THEN retryTimeouts' =
                      [retryTimeouts EXCEPT ![id] = [st |-> "pending", delay |-> 0]]
               ELSE retryTimeouts' = retryTimeouts]_vars

\* a donation has just been enqueued online: one item, first attempt pending
C11_Witness ==
  /\ isOnline
  /\ GetQueueStatus(db).total = 1
  /\ ByTypeCount(GetQueueStatus(db), "donations") = 1
  /\ \E id \in DOMAIN db :
       /\ db[id].retryCount = 0
       /\ retryTimeouts[id] = [st |-> "pending", delay |-> 0]
       /\ attempts[id] = 0

\* what processQueue() and retryItem(id) may not touch while offline
ReplayState == <<db, retryTimeouts, loose, tasks, attempts, events>>

\* C12: while the manager is offline, processQueue() and retryItem(id) are
\* no-ops: no request is sent, no notification emitted, and the store and
\* the retry timers stay as they are.
C12_OfflineNoOps ==
  /\ [](~isOnline => /\ ProcessQueueRest(isOnline, db) = <<>>
                     /\ PassTasks(ProcessQueueRest(isOnline, db), "manager") = EmptyBag
                     /\ PassAttempts(attempts, ProcessQueueRest(isOnline, db)) = attempts)
  /\ [][(~isOnline /\ (ProcessQueue \/ \E id \in Ids : RetryItem(id)))
          => UNCHANGED ReplayState]_vars

\* the manager is offline with an item queued and nothing in flight: the
\* state a processQueue() or retryItem(id) call finds and leaves
C12_Witness ==
  /\ ~isOnline
  /\ db # <<>>
  /\ tasks = EmptyBag
  /\ \A id \in Ids : attempts[id] = 0 /\ retryTimeouts[id] = NoTimer

\* ------------------------------------------- service worker, read requests
\* the non-auth reads the page makes: two endpoints of the class events and
\* one of no class
SWReadRequests ==
  { [path |-> <<"api", "events">>, method |-> "GET",
     body |-> "none", headers |-> "none"],
    [path |-> <<"api", "events", "1">>, method |-> "GET",
     body |-> "none", headers |-> "none"],
    [path |-> <<"api", "users">>, method |-> "GET",
     body |-> "none", headers |-> "Authorization"] }

\* the service worker answering the page's reads as time passes
NextSWRead ==
  \/ \E req \in SWReadRequests, net \in NetOutcomes, fault \in {"none", "open"} :
       SWFetch(req, net, fault)
  \/ Tick(MaxClock) /\ UNCHANGED swVars /\ UNCHANGED idbVars /\ UNCHANGED callVars

SpecSWRead == Init /\ [][NextSWRead]_vars

\* the error text of the offline response of a pathname's resource class
OfflineMessage(path) ==
  IF Includes(path, "prayers") THEN "Prayer times not available offline"
  ELSE IF Includes(path, "events") THEN "Events not available offline"
  ELSE IF Includes(path, "announcements") THEN "Announcements not available offline"
  ELSE "API not available offline"

\* C13: a non-auth read whose network attempt fails never surfaces as an
\* exception: the caller gets the cached snapshot, marked as such, when one
\* is present, and otherwise a structured offline response (offline: true)
\* of the resource class requested.
C13_ReadFailureNeverThrows ==
  [][\A req \in SWReadRequests, net \in {"notok", "error"}, fault \in {"none", "open"} :
       SWFetch(req, net, fault) =>
         /\ swResponse'.kind # "rejected"
         /\ PathName(req.path) \in DOMAIN apiCache
              => /\ swResponse'.kind = "cache"
                 /\ swResponse'.data = apiCache[PathName(req.path)]
         /\ swResponse'.kind \notin {"cache", "indexedDB"}
              => /\ swResponse'.kind = "synthetic"
                 /\ swResponse'.offline
                 /\ swResponse'.status = 503
                 /\ swResponse'.error = OfflineMessage(req.path)]_vars

\* C14: a failed non-auth read that is answered with stored data gets the
\* payload of the most recent successful read of that same endpoint: never
\* the payload recorded for another endpoint of the same resource class,
\* never an older payload than the latest successful read.
C14_FallbackPayloadOfSameEndpoint ==
  [][\A req \in SWReadRequests, net \in {"notok", "error"}, fault \in {"none", "open"} :
       (SWFetch(req, net, fault) /\ swResponse'.data # NoData) =>
          /\ swResponse'.data.endpoint = PathName(req.path)
          /\ PathName(req.path) \in DOMAIN apiCache
          /\ swResponse'.data = apiCache[PathName(req.path)]]_vars

\* ------------------------------------------- IndexedDBManager, the calls
\* store(storeName, data, ttlMinutes): transaction() throws for a collection
\* that init() did not create, and the promise rejects
IdbStore(c, rec, ttl) ==
  /\ IF c \in ObjectStoreNames
     THEN /\ coll' = [coll EXCEPT ![c] = Put(@, WithExpiry(rec, ttl, now))]
          /\ idbOut' = IdbSettled("store", TRUE, NotFound, {})
     ELSE /\ coll' = coll
          /\ idbOut' = IdbSettled("store", FALSE, NotFound, {})
  /\ UNCHANGED <<navOnline, now, mgrVars, appVars, swVars, callVars>>

\* get(storeName, id): the record, or null after this.delete of an expired one
IdbGet(c, id) ==
  /\ IF c \notin ObjectStoreNames
     THEN /\ coll' = coll
          /\ idbOut' = IdbSettled("get", FALSE, NotFound, {})
     ELSE IF id \notin DOMAIN coll[c]
     THEN /\ coll' = coll
          /\ idbOut' = IdbSettled("get", TRUE, NotFound, {})
     ELSE IF Expired(coll[c][id], now)
     THEN /\ coll' = [coll EXCEPT ![c] = Delete(@, id)]
          /\ idbOut' = IdbSettled("get", TRUE, NotFound, {id})
     ELSE /\ coll' = coll
          /\ idbOut' = IdbSettled("get", TRUE, coll[c][id], {})
  /\ UNCHANGED <<navOnline, now, mgrVars, appVars, swVars, callVars>>

\* getAll(storeName): the records not expired; the expired ones are deleted
IdbGetAll(c) ==
  /\ IF c \notin ObjectStoreNames
     THEN /\ coll' = coll
          /\ idbOut' = IdbSettled("getAll", FALSE, <<>>, {})
     ELSE /\ coll' = [coll EXCEPT ![c] =
                        [i \in {j \in DOMAIN @ : ~Expired(@[j], now)} |-> @[i]]]
          /\ idbOut' = IdbSettled("getAll", TRUE, ValidResults(coll[c], now),
                               {j \in DOMAIN coll[c] : Expired(coll[c][j], now)})
  /\ UNCHANGED <<navOnline, now, mgrVars, appVars, swVars, callVars>>

\* delete(storeName, id): no error if absent
IdbDelete(c, id) ==
  /\ IF c \notin ObjectStoreNames
     THEN /\ coll' = coll
          /\ idbOut' = IdbSettled("delete", FALSE, NotFound, {})
     ELSE /\ coll' = [coll EXCEPT ![c] = Delete(@, id)]
          /\ idbOut' = IdbSettled("delete", TRUE, NotFound, {})
  /\ UNCHANGED <<navOnline, now, mgrVars, appVars, swVars, callVars>>

\* the store used directly, as the helpers of offlineStorage and the auth
\* store do, while time passes
NextIDB ==
  \/ \E c \in IdbCollections, rec \in IdbRecords, ttl \in IdbTtls : IdbStore(c, rec, ttl)
  \/ \E c \in IdbCollections, id \in {"current", "next"} : IdbGet(c, id)
  \/ \E c \in IdbCollections : IdbGetAll(c)
  \/ \E c \in IdbCollections, id \in {"current", "next"} : IdbDelete(c, id)
  \/ Tick(MaxClock) /\ UNCHANGED swVars /\ UNCHANGED idbVars /\ UNCHANGED callVars

SpecIDB == Init /\ [][NextIDB]_vars

\* ------------------------------------------------------------------ C15
\* a record carries an expiresAt that is earlier than the current time
PastExpiresAt(rec) == rec.expiresAt # Undefined /\ rec.expiresAt < now

\* C15: a read past expiresAt finds nothing and purges.  get(collection, id) on
\* a record whose expiresAt is earlier than the current time resolves not-found
\* and the record is gone afterwards; getAll(collection) omits every such
\* record and removes it; a record with no expiresAt is returned by both reads
\* and stays in the collection.
C15_ExpiredReadIsAbsent ==
  [][/\ \A c \in IdbCollections \cap ObjectStoreNames, id \in {"current", "next"} :
          (IdbGet(c, id) /\ id \in DOMAIN coll[c]) =>
             /\ PastExpiresAt(coll[c][id]) =>
                   /\ idbOut'.ok /\ idbOut'.value = NotFound
                   /\ id \notin DOMAIN coll'[c]
             /\ coll[c][id].expiresAt = Undefined =>
                   /\ idbOut'.value = coll[c][id]
                   /\ coll' = coll
     /\ \A c \in IdbCollections \cap ObjectStoreNames :
          IdbGetAll(c) =>
             \A id \in DOMAIN coll[c] :
                /\ PastExpiresAt(coll[c][id]) =>
                      /\ \A k \in DOMAIN idbOut'.value : idbOut'.value[k] # coll[c][id]
                      /\ id \notin DOMAIN coll'[c]
                /\ coll[c][id].expiresAt = Undefined =>
                      /\ \E k \in DOMAIN idbOut'.value : idbOut'.value[k] = coll[c][id]
                      /\ id \in DOMAIN coll'[c] /\ coll'[c][id] = coll[c][id]]_vars

\* getAll has just purged an expired record and returned the one that has no
\* expiresAt
C15_Witness ==
  /\ idbOut.op = "getAll" /\ idbOut.ok
  /\ idbOut.purged # {}
  /\ Len(idbOut.value) = 1
  /\ idbOut.value[1].expiresAt = Undefined
  /\ DOMAIN coll["events"] = {idbOut.value[1].id}
  /\ idbOut.purged \cap DOMAIN coll["events"] = {}

\* ------------------------------------------------------------------ C16
\* C16: the read fallback honours the time-to-live.  On a failed read the
\* answer never carries a payload stored longer ago than SnapshotTtl, and once
\* the stored snapshot of the request's resource class has expired the caller
\* gets the structured offline response.
C16_ReadFallbackHonoursTtl ==
  [][\A req \in SWReadRequests, net \in {"notok", "error"}, fault \in {"none", "open"} :
       SWFetch(req, net, fault) =>
          /\ swResponse'.data # NoData => now <= swResponse'.data.version + SnapshotTtl
          /\ (/\ SnapshotStore(req.path) \in SnapshotStores
              /\ idbSnap[SnapshotStore(req.path)] # NoRecord
              /\ now > idbSnap[SnapshotStore(req.path)].expiresAt)
                => swResponse' = GetOfflineResponse(req.path)]_vars

\* ------------------------------------------------------------------ C17
\* C17: round trip and upsert.  For every collection of the schema and every
\* record, store(collection, record) resolves and leaves under record.id a
\* record that an immediate get returns (it has not expired) and that equals
\* the stored one on id and data; the collection holds the ids it held before
\* and record.id, each once.
C17_StoreThenGetRoundTrip ==
  [][\A c \in IdbCollections, rec \in IdbRecords, ttl \in IdbTtls :
       IdbStore(c, rec, ttl) =>
          /\ idbOut'.ok
          /\ DOMAIN coll'[c] = DOMAIN coll[c] \cup {rec.id}
          /\ coll'[c][rec.id].id = rec.id
          /\ coll'[c][rec.id].data = rec.data
          /\ ~(coll'[c][rec.id].expiresAt # Undefined /\ coll'[c][rec.id].expiresAt < now')
          /\ \A i \in DOMAIN coll[c] \ {rec.id} : coll'[c][i] = coll[c][i]]_vars

\* ------------------------------------- the manager's caller: status, errors
\* a body JSON.stringify throws on (a circular structure, a BigInt)
Unserializable(body) == body = "circular"

\* queueDonation with a donation object that refers to itself
CircularRequest ==
  [url |-> "/api/donations", method |-> "POST", body |-> "circular",
   headers |-> "Authorization", type |-> "donations"]

\* a put that fails with the state the store is left in (the put that raised
\* the error is not applied)
StoreOutcomeApplied(d, item, t, fault) ==
  [ok |-> fault = "none", db |-> Store(d, item, t)]

\* indexedDBManager.store as awaited by addToQueue: the promise and the store
StoreOutcome(d, item, t, fault) ==
  IF fault = "none" THEN [ok |-> TRUE, db |-> Store(d, item, t)]
  ELSE [ok |-> FALSE, db |-> d]

\* getQueueStatus(): getAll (no queue record has an expiresAt: nothing is
\* purged), then the reduce
GetQueueStatusCall ==
  /\ callOut' = CallSettled("getQueueStatus", TRUE, "", GetQueueStatus(db))
  /\ UNCHANGED <<navOnline, now, mgrVars, appVars>>

\* addToQueue that throws: JSON.stringify at line 72, or the awaited store at
\* line 80; lines 81-88 are not reached
AddToQueueThrows(req, given, fault) ==
  /\ Unserializable(req.body) \/ fault # "none"
  /\ IF Unserializable(req.body)
     THEN /\ db' = db
          /\ callOut' = CallSettled("addToQueue", FALSE, "TypeError", NoStatus)
     ELSE LET o == StoreOutcome(db, NewQueueItem(nextId, req, given, now), now, fault)
          IN /\ db' = o.db
             /\ callOut' = CallSettled("addToQueue", o.ok, "store", NoStatus)
  /\ UNCHANGED <<navOnline, now, nextId, isOnline, retryTimeouts, loose, startupTimer,
                 tasks, clearing, cleared, events, attempts, appVars>>

\* the addToQueue calls explored that throw: an unserializable donation (with
\* the store sound, and with the store failing too), and a donation and a
\* registration whose put fails
ThrowingCalls ==
  { [req |-> CircularRequest, given |-> Undefined, fault |-> "none"],
    [req |-> CircularRequest, given |-> 1, fault |-> "put"],
    [req |-> DonationRequest, given |-> Undefined, fault |-> "put"],
    [req |-> RegistrationRequest, given |-> 1, fault |-> "put"] }

\* what goes on between the calls of that caller: enqueues that succeed, the
\* retry timers and their attempts, connectivity events
StepCalls ==
  \/ \E c \in {x \in Calls : x.given # 0} : AddToQueue(c.req, c.given)
  \/ \E t \in BagToSet(tasks) : FetchOk(t)
  \/ \E t \in BagToSet(tasks) : FetchFail(t)
  \/ \E id \in Ids : TimerFire(id)
  \/ \E id \in Ids : LooseTimerFire(id)
  \/ OnlineEvent
  \/ OfflineEvent

\* the manager with a caller that also reads the status and sees enqueue fail
NextCalls ==
  /\ \/ StepCalls /\ callOut' = CallSettled("none", TRUE, "", NoStatus)
     \/ GetQueueStatusCall
     \/ \E c \in ThrowingCalls : AddToQueueThrows(c.req, c.given, c.fault)
  /\ WithinBounds
  /\ UNCHANGED swVars /\ UNCHANGED idbVars

SpecCalls == Init /\ [][NextCalls]_vars

C20_EnqueueFailureLeavesNoTrace ==
  [][callOut'.op = "addToQueue" =>
      \A c \in ThrowingCalls :
       AddToQueueThrows(c.req, c.given, c.fault) =>
          /\ ~callOut'.ok
          /\ callOut'.error = (IF c.req.body = "circular" THEN "TypeError" ELSE "store")
          /\ db' = db
          /\ UNCHANGED <<retryTimeouts, loose, tasks, attempts>>]_vars

\* an enqueue has just failed on the store write while online, with an item
\* already queued: that item is still there and nothing else is
C20_Witness ==
  /\ callOut.op = "addToQueue" /\ ~callOut.ok /\ callOut.error = "store"
  /\ isOnline
  /\ Cardinality(DOMAIN db) = 1

\* ------------------------------------- the manager over a persisted queue
\* the largest retryCount the explored items reach
MaxRetryCount == 8

\* an item an earlier session left in the store: enqueued with
\* retryConfig {maxRetries: MaxRetryCount}, failed retryCount times since
PersistedItem(retryCount) ==
  [NewQueueItem(1, DonationRequest, MaxRetryCount, 0) EXCEPT !.retryCount = retryCount]

\* the manager constructed on a page load over such a store
InitPersisted ==
  /\ navOnline \in BOOLEAN
  /\ now = 0
  /\ \E r \in 0..(MaxRetryCount - 1) : db = Store(<<>>, PersistedItem(r), 0)
  /\ nextId = 2
  /\ isOnline = navOnline
  /\ retryTimeouts = [i \in Ids |-> NoTimer]
  /\ loose = [i \in Ids |-> 0]
  /\ startupTimer = navOnline
  /\ tasks = EmptyBag
  /\ clearing = 0
  /\ cleared = FALSE
  /\ events = EmptyBag
  /\ attempts = [i \in Ids |-> 0]
  /\ appOnline = navOnline
  /\ syncInProgress = FALSE
  /\ lastSyncTime = Undefined
  /\ mounted = FALSE
  /\ counting = 0
  /\ apiCache = <<>>
  /\ idbSnap = [n \in SnapshotStores |-> NoRecord]
  /\ swResponse = Rejected("none")
  /\ syncing = <<>>
  /\ coll = [c \in IdbCollections |-> <<>>]
  /\ idbOut = IdbSettled("none", TRUE, NotFound, {})
  /\ callOut = CallSettled("none", TRUE, "", NoStatus)

\* replays of the persisted item: drain passes, retry timers, manual retries,
\* connectivity events
NextPersisted ==
  /\ \/ \E t \in BagToSet(tasks) : FetchOk(t)
     \/ \E t \in BagToSet(tasks) : FetchFail(t)
     \/ \E id \in Ids : TimerFire(id)
     \/ \E id \in Ids : LooseTimerFire(id)
     \/ \E id \in Ids : RetryItem(id)
     \/ ProcessQueue
     \/ StartupTimerFire
     \/ OnlineEvent
     \/ OfflineEvent
  /\ WithinBounds
  /\ UNCHANGED swVars /\ UNCHANGED idbVars /\ UNCHANGED callVars

SpecPersisted == InitPersisted /\ [][NextPersisted]_vars

\* ------------------------------------------------------------------ C19
\* min(baseDelay * backoffMultiplier^(n-1), maxDelay) with the defaults
BackoffSchedule(n) ==
  LET uncapped == 1000 * Pow(2, n - 1)
  IN IF uncapped <= 30000 THEN uncapped ELSE 30000

\* C19: the backoff schedule.  A failed attempt that persists retryCount n and
\* leaves a retry timer in the map schedules it with delay
\* min(baseDelay * backoffMultiplier^(n-1), maxDelay); the computed delays for
\* retryCount 1, 2 and 3 are 1000, 2000 and 4000 ms, the delay is
\* non-decreasing in retryCount and never exceeds 30000 ms.
C19_BackoffSchedule ==
  /\ [][\A t \in BagToSet(tasks) :
          (/\ FetchFail(t)
           /\ t.item.id \in DOMAIN db'
           /\ retryTimeouts'[t.item.id].st = "pending") =>
             /\ db'[t.item.id].retryCount = t.item.retryCount + 1
             /\ retryTimeouts'[t.item.id].delay = BackoffSchedule(db'[t.item.id].retryCount)
             /\ retryTimeouts'[t.item.id].delay <= 30000]_vars
  /\ [](\A id \in DOMAIN db :
          LET n == db[id].retryCount IN
          n >= 1 =>
            /\ CalculateRetryDelay(n) = BackoffSchedule(n)
            /\ CalculateRetryDelay(n) <= CalculateRetryDelay(n + 1)
            /\ CalculateRetryDelay(n) <= 30000
            /\ n = 1 => CalculateRetryDelay(n) = 1000
            /\ n = 2 => CalculateRetryDelay(n) = 2000
            /\ n = 3 => CalculateRetryDelay(n) = 4000)

\* a failed manual retry has persisted retryCount 6 and its timer is capped
C19_Witness ==
  \E id \in DOMAIN db :
    /\ db[id].retryCount = 6
    /\ retryTimeouts[id] = [st |-> "pending", delay |-> 30000]

\* ------------------------------------------------------------------ C21
\* C21: retry timers are tracked by item id.  Every pending retry timer is the
\* one the retryTimeouts map holds for its item id, so there is at most one
\* per id; and no retry timer is pending for an id whose item has been
\* removed from the store.
C21_TimersTrackedById ==
  \A id \in Ids :
    /\ loose[id] = 0
    /\ (id < nextId /\ id \notin DOMAIN db) => ~TimerPending(retryTimeouts, loose, id)

\* ------------------------- attempts with the offline queue store failing
\* the number of items a previous session left in the store
MaxLoaded == 2

LoadedIds == 1..MaxLoaded

\* the outcomes of one IndexedDB request of the manager: it succeeds, or it
\* fails and the promise of store() / delete() rejects
StoreFaults == {"none", "rejects"}

\* what handleRetry(item) leaves behind: whether it threw, the store, the
\* retryTimeouts map and the events
HandleRetryOutcome(threw, d, rt, ev) == [threw |-> threw, db |-> d, rt |-> rt, events |-> ev]

\* handleRetry(item), lines 142-159, with the outcome of its one store request
HandleRetry(item, fault, d, rt, ev, t) ==
  IF RetriesExhausted(item)
  THEN \* removeFromQueue (delete, then clear the timer), then notifyFailure
       IF fault = "none"
       THEN HandleRetryOutcome(FALSE, Delete(d, item.id), ClearTimer(rt, item.id),
                               ev (+) SetToBag({FailureEvent(item)}))
       ELSE HandleRetryOutcome(TRUE, d, rt, ev)
  ELSE \* item.retryCount += 1; store; scheduleRetry
       LET next == [item EXCEPT !.retryCount = @ + 1]
       IN IF fault = "none"
          THEN HandleRetryOutcome(FALSE, Store(d, next, t),
                                  ScheduleRetry(rt, next.id, CalculateRetryDelay(next.retryCount)),
                                  ev)
          ELSE HandleRetryOutcome(TRUE, d, rt, ev)

\* processQueueItem threw: the for-loop of processQueue is left through its
\* catch (the pass is over, the facade's await resumes); the timer callback
\* catches too and runs its finally
AfterThrow(t, rt1) ==
  LET id == t.item.id IN
  /\ tasks' = tasks (-) SetToBag({t})
  /\ attempts' = attempts
  /\ counting' = IF t.kind = "pass" THEN counting + PassCounting(<<>>, t.owner)
                 ELSE counting
  /\ retryTimeouts' = IF t.kind = "timer" THEN ClearTimer(rt1, id) ELSE rt1
  /\ loose' = IF t.kind = "timer" /\ rt1[id].st = "pending"
              THEN [loose EXCEPT ![id] = @ + 1] ELSE loose

\* processQueueItem(item) from the return of its fetch to its end: net is the
\* response (ok or not), removal the outcome of the delete of line 116, retry
\* the outcome of the store request of handleRetry
AttemptSettles(t, net, removal, retry) ==
  /\ net = "ok" => navOnline
  /\ net = "fail" => removal = "none"
  /\ (net = "ok" /\ removal = "none") => retry = "none"
  /\ IF net = "ok" /\ removal = "none"
     THEN /\ db' = Delete(db, t.item.id)
          /\ events' = events (+) SetToBag({SuccessEvent(t.item)})
          /\ AfterAttempt(t, ClearTimer(retryTimeouts, t.item.id))
     ELSE LET h == HandleRetry(t.item, retry, db, retryTimeouts, events, now)
          IN /\ db' = h.db
             /\ events' = h.events
             /\ IF h.threw THEN AfterThrow(t, h.rt) ELSE AfterAttempt(t, h.rt)
  /\ UNCHANGED <<navOnline, now, nextId, isOnline, startupTimer, clearing,
                 cleared, appOnline, syncInProgress, lastSyncTime, mounted>>

\* the manager constructed on a page load over a store that holds MaxLoaded
\* items of an earlier session
InitLoaded ==
  /\ navOnline \in BOOLEAN
  /\ now = 0
  /\ db = [i \in LoadedIds |->
             [NewQueueItem(i, IF i = 1 THEN DonationRequest ELSE RegistrationRequest,
                           Undefined, 0) EXCEPT !.maxRetries = IF i = 1 THEN 3 ELSE 1]]
  /\ nextId = MaxLoaded + 1
  /\ isOnline = navOnline
  /\ retryTimeouts = [i \in LoadedIds |-> NoTimer]
  /\ loose = [i \in LoadedIds |-> 0]
  /\ startupTimer = navOnline
  /\ tasks = EmptyBag
  /\ clearing = 0
  /\ cleared = FALSE
  /\ events = EmptyBag
  /\ attempts = [i \in LoadedIds |-> 0]
  /\ appOnline = navOnline
  /\ syncInProgress = FALSE
  /\ lastSyncTime = Undefined
  /\ mounted = FALSE
  /\ counting = 0
  /\ apiCache = <<>>
  /\ idbSnap = [n \in SnapshotStores |-> NoRecord]
  /\ swResponse = Rejected("none")
  /\ syncing = <<>>
  /\ coll = [c \in IdbCollections |-> <<>>]
  /\ idbOut = IdbSettled("none", TRUE, NotFound, {})
  /\ callOut = CallSettled("none", TRUE, "", NoStatus)

\* drain passes, retry timers and connectivity events over the loaded items,
\* every store request of an attempt free to fail
NextLoaded ==
  /\ \/ \E t \in BagToSet(tasks), net \in {"ok", "fail"}, removal \in StoreFaults,
           retry \in StoreFaults : AttemptSettles(t, net, removal, retry)
     \/ \E id \in LoadedIds : TimerFire(id)
     \/ \E id \in LoadedIds : LooseTimerFire(id)
     \/ ProcessQueue
     \/ StartupTimerFire
     \/ OnlineEvent
     \/ OfflineEvent
  /\ Sum(attempts', LoadedIds) <= MaxAttempts
  /\ UNCHANGED swVars /\ UNCHANGED idbVars /\ UNCHANGED callVars

SpecLoaded == InitLoaded /\ [][NextLoaded]_vars

\* ------------------------------------------------------------------ C22
\* C22: a drain pass attempts every loaded item.  When the attempt of a loaded
\* item ends, however it ends, the pass goes on with the next loaded item:
\* its request is started, and only then.
C22_PassAttemptsEveryLoadedItem ==
  [][\A t \in BagToSet(tasks) :
       (/\ t.kind = "pass" /\ t.rest # <<>>
        /\ CopiesIn(t, tasks') < CopiesIn(t, tasks)) =>
          /\ CopiesIn(Task("pass", t.owner, Head(t.rest), Tail(t.rest)), tasks')
               = CopiesIn(Task("pass", t.owner, Head(t.rest), Tail(t.rest)), tasks) + 1
          /\ attempts'[Head(t.rest).id] = attempts[Head(t.rest).id] + 1]_vars

\* ------------------------------ the manager and the worker, staying online
\* the page's writes that the service worker sees fail on the network
SWFailedWrites == {req \in SWRequests : IsWriteOperation(req.method)}

\* what the event loop does on its own: responses arrive, timers fire
Internal ==
  /\ \/ \E t \in BagToSet(tasks) : FetchOk(t)
     \/ \E t \in BagToSet(tasks) : FetchFail(t)
     \/ \E id \in Ids : TimerFire(id)
     \/ \E id \in Ids : LooseTimerFire(id)
     \/ StartupTimerFire
  /\ UNCHANGED swVars /\ UNCHANGED idbVars /\ UNCHANGED callVars

\* a page that is online and stays online: enqueues through the manager,
\* writes that fail in the service worker, and the event loop; no
\* connectivity event, no manual processQueue or retryItem
NextOnline ==
  \/ (\E c \in Calls : AddToQueue(c.req, c.given))
       /\ UNCHANGED swVars /\ UNCHANGED idbVars /\ UNCHANGED callVars
  \/ \E req \in SWFailedWrites, net \in {"notok", "error"} : SWFetch(req, net, "none")
  \/ Internal

\* the manager constructed while navigator.onLine is true
InitOnline == Init /\ navOnline

\* every network call returns and every timer that is due fires
SpecOnline == InitOnline /\ [][NextOnline]_vars /\ WF_vars(Internal)

\* ------------------------------------------------------------------ C23
\* C23: liveness of the queue.  With the manager online throughout and every
\* network call returning, every item that is in the offline queue store,
\* however it got there, is eventually removed from it.
C23_EveryItemEventuallyRemoved ==
  \A id \in Ids : (id \in DOMAIN db) ~> (id \notin DOMAIN db)

\* ------------------------------------------------------------------ C24
\* the number of notifications of the given name emitted for the item id
Notified(ev, name, id) ==
  Sum([e \in {x \in BagToSet(ev) : x.name = name /\ x.id = id} |-> CopiesIn(e, ev)],
      {x \in BagToSet(ev) : x.name = name /\ x.id = id})

\* C24: at-most-once delivery.  An item gets at most one 2xx replay (each is
\* followed by its success notification), and once it has got one no further
\* request for it is started.
C24_AtMostOnceDelivery ==
  /\ [](\A id \in Ids : Notified(events, "offlineQueueSuccess", id) <= 1)
  /\ [][\A id \in Ids :
          attempts'[id] > attempts[id] =>
            Notified(events, "offlineQueueSuccess", id) = 0]_vars

\* ------------------------------------------------------------------ C25
\* C25: no resurrection.  Once an item has been removed from the offline queue
\* store by a successful replay or by exhaustion, no record with its id is
\* written to the store again.
C25_NoResurrection ==
  [][\A id \in Ids :
       (/\ id < nextId /\ id \notin DOMAIN db
        /\ Notified(events, "offlineQueueSuccess", id)
             + Notified(events, "offlineQueueFailure", id) > 0)
         => id \notin DOMAIN db']_vars

\* ------------------------------------------------------------------ C26
\* C26: one terminal notification per item.  Over its whole lifetime an item
\* gets at most one terminal notification: one offlineQueueSuccess or one
\* offlineQueueFailure, never both and never the same one twice.
C26_OneTerminalNotification ==
  \A id \in Ids :
    Notified(events, "offlineQueueSuccess", id)
      + Notified(events, "offlineQueueFailure", id) <= 1

\* ------------------------------------------------------------------ C27
\* C27: no replay while offline.  No request for a queued item is started
\* while the manager is offline, so no retryCount is counted up by an attempt
\* that was started offline.
C27_NoAttemptWhileOffline ==
  [][\A id \in Ids : attempts'[id] > attempts[id] => isOnline']_vars

\* ------------------------------------ service worker: background sync
\* the tags the 'sync' listener handles, with the type it replays
SyncTags ==
  { [tag |-> "background-sync-donations", type |-> "donations"],
    [tag |-> "background-sync-registrations", type |-> "registrations"] }

\* getOfflineData(type): the records of the offline queue store of that type
GetOfflineData(type, d) == SelectSeq(GetAll(d), LAMBDA item : item.type = type)

\* the 'sync' event with one of the handled tags: syncOfflineDonations /
\* syncOfflineRegistrations load their records and send the first request
SWSyncStart(s) ==
  /\ syncing = <<>>
  /\ GetOfflineData(s.type, db) # <<>>
  /\ syncing' = GetOfflineData(s.type, db)
  /\ UNCHANGED <<navOnline, now, mgrVars, appVars, apiCache, idbSnap, swResponse,
                 idbVars, callVars>>

\* the fetch of the first loaded record returns: removeOfflineData(type, id)
\* when response.ok, nothing otherwise; then the loop goes on
SWSyncSettles(net) ==
  /\ syncing # <<>>
  /\ net = "ok" => navOnline
  /\ db' = IF net = "ok" THEN Delete(db, Head(syncing).id) ELSE db
  /\ syncing' = Tail(syncing)
  /\ UNCHANGED <<navOnline, now, nextId, isOnline, retryTimeouts, loose, startupTimer,
                 tasks, clearing, cleared, events, attempts, appVars, apiCache,
                 idbSnap, swResponse, idbVars, callVars>>

\* the manager with its retry timers, and the worker's background sync
NextSync ==
  \/ /\ \/ \E c \in Calls : AddToQueue(c.req, c.given)
        \/ \E t \in BagToSet(tasks) : FetchOk(t)
        \/ \E t \in BagToSet(tasks) : FetchFail(t)
        \/ \E id \in Ids : TimerFire(id)
        \/ \E id \in Ids : LooseTimerFire(id)
        \/ OnlineEvent
        \/ OfflineEvent
     /\ WithinBounds
     /\ UNCHANGED swVars /\ UNCHANGED idbVars /\ UNCHANGED callVars
  \/ \E s \in SyncTags : SWSyncStart(s)
  \/ \E net \in {"ok", "fail"} : SWSyncSettles(net)

SpecSync == Init /\ [][NextSync]_vars

\* ------------------------------------------------------------------ C28
\* C28: the manager owns the queued items.  An item leaves the offline queue
\* store only together with its success notification (a successful replay) or
\* its failure notification (exhaustion of its retries), and a stored item is
\* rewritten only at the end of one of its attempts.
C28_ItemsLeaveOnlyThroughTheManager ==
  [][\A id \in DOMAIN db :
       /\ id \notin DOMAIN db' =>
            \/ Notified(events', "offlineQueueSuccess", id)
                 = Notified(events, "offlineQueueSuccess", id) + 1
            \/ Notified(events', "offlineQueueFailure", id)
                 = Notified(events, "offlineQueueFailure", id) + 1
       /\ (id \in DOMAIN db' /\ db'[id] # db[id]) =>
            \E t \in BagToSet(tasks) :
               t.item.id = id /\ CopiesIn(t, tasks') < CopiesIn(t, tasks)]_vars

\* ------------------------------------------------------------------ C29
\* C29: a failed replay changes retryCount only.  While an item stays in the
\* store its id, url, method, body, headers, type, maxRetries and timestamp
\* are what they were when it was enqueued.
C29_FailedAttemptChangesRetryCountOnly ==
  [][\A id \in (DOMAIN db) \cap (DOMAIN db') :
       [db'[id] EXCEPT !.retryCount = db[id].retryCount] = db[id]]_vars

\* ------------------------------------- enqueues with their own retryConfig
\* the retryConfig arguments explored, all four fields given
RetryConfigs ==
  { [maxRetries |-> 2, baseDelay |-> 500, maxDelay |-> 1200, backoffMultiplier |-> 3],
    [maxRetries |-> 1, baseDelay |-> 2000, maxDelay |-> 60000, backoffMultiplier |-> 2] }

\* addToQueue(url, method, body, headers, type, retryConfig): line 66 merges
\* the argument over the defaults, lines 68-78 keep config.maxRetries only
AddToQueueConfigured(req, retryConfig) == AddToQueue(req, retryConfig.maxRetries)

\* the manager with items enqueued under their own retryConfig
NextConfigured ==
  /\ \/ \E req \in Requests, rc \in RetryConfigs : AddToQueueConfigured(req, rc)
     \/ \E t \in BagToSet(tasks) : FetchOk(t)
     \/ \E t \in BagToSet(tasks) : FetchFail(t)
     \/ \E id \in Ids : TimerFire(id)
     \/ \E id \in Ids : LooseTimerFire(id)
     \/ \E id \in Ids : RetryItem(id)
     \/ ProcessQueue
     \/ OnlineEvent
     \/ OfflineEvent
  /\ WithinBounds
  /\ UNCHANGED swVars /\ UNCHANGED idbVars /\ UNCHANGED callVars

SpecConfigured == Init /\ [][NextConfigured]_vars

\* ------------------------------------------------------------------ C30
\* the retryConfig an item was enqueued with
ConfigOf(item) == CHOOSE rc \in RetryConfigs : rc.maxRetries = item.maxRetries

\* min(baseDelay * backoffMultiplier^(n-1), maxDelay) of a retryConfig
ConfiguredDelay(rc, n) ==
  LET uncapped == rc.baseDelay * Pow(rc.backoffMultiplier, n - 1)
  IN IF uncapped <= rc.maxDelay THEN uncapped ELSE rc.maxDelay

\* C30: per-item backoff.  A failed attempt that persists retryCount n for an
\* item enqueued with its own retryConfig, and leaves a retry timer in the
\* map, schedules it with min(baseDelay * backoffMultiplier^(n-1), maxDelay)
\* of that retryConfig.
C30_DelayFollowsItemConfig ==
  [][\A t \in BagToSet(tasks) :
       (/\ FetchFail(t)
        /\ t.item.id \in DOMAIN db'
        /\ retryTimeouts'[t.item.id].st = "pending") =>
          retryTimeouts'[t.item.id].delay
            = ConfiguredDelay(ConfigOf(t.item), db'[t.item.id].retryCount)]_vars

====
